---- MODULE Spec2Model ----
(***************************************************************************)
(* State-machine model of the annotation engine of src/main.py: the box    *)
(* store of ImageWidget (results, last_idx, lastPoint), the session state  *)
(* of MainWidget (imgList, currentImg, crop_mode, ...), the status-bar     *)
(* labels the handlers read back (fileName, autoLabel, savePathLabel) and  *)
(* the files the handlers create (sidecar .txt files, crop files, the      *)
(* Results directory).  One action per Qt event handler.                   *)
(***************************************************************************)
EXTENDS Integers, Sequences, FiniteSets, TLC

VARIABLES
    key_config,     \* MainWidget.key_config: the label strings (here: names 1..n)
    dims,           \* image -> <<width, height>> of the image file in pixels
    screen_height,  \* ImageWidget.screen_height
    results,        \* ImageWidget.results: boxes, each <<lx,ly,rx,ry>> or <<lx,ly,rx,ry,idx>>
    last_idx,       \* ImageWidget.last_idx
    lastPoint,      \* ImageWidget.lastPoint, set by the left press
    autoLabel,      \* text of MyApp.autoLabel: "Manual Label" or "Auto Label"
    scanned,        \* TRUE once registerInputPath has created imgList and total_imgs
    imgList,        \* MainWidget.imgList
    total_imgs,     \* MainWidget.total_imgs
    currentImg,     \* MainWidget.currentImg
    fileName,       \* text of MyApp.fileName
    progress,       \* text of MyApp.progress: <<>> (blank) or <<done, total>>
    size,           \* <<ImageWidget.W, ImageWidget.H>>, <<>> while the attributes are unset
    files,          \* sidecar path -> "absent", "empty" or "lines" (a file with lines)
    written,        \* the lines the last handler appended to a sidecar, in order
    crop_mode,      \* MainWidget.crop_mode
    savePathLabel,  \* text of MainWidget.savePathLabel
    saveDirExists,  \* whether <inputDirectory>/Results exists
    crops,          \* the crop files the last handler saved: <<name, pixel rectangle>>
    popup,          \* text of the message box the last handler showed, "" if none
    alive           \* FALSE once an uncaught exception has aborted the process

vars == <<key_config, dims, screen_height, results, last_idx, lastPoint, autoLabel,
          scanned, imgList,
          total_imgs, currentImg, fileName, progress, size, files, written,
          crop_mode, savePathLabel, saveDirExists, crops, popup, alive>>

\* what the handlers only read: the configuration, the image files, the screen
envVars == <<key_config, dims, screen_height>>

boxVars == <<results, last_idx, lastPoint, autoLabel>>
sessionVars == <<scanned, imgList, total_imgs, currentImg, fileName, progress, size>>
diskVars == <<files, saveDirExists>>
cropVars == <<crop_mode, savePathLabel>>

-----------------------------------------------------------------------------
(* Bounds of the model *)

MaxBoxes == 2       \* cap on the number of boxes held in the store
NumJpg == 1         \* number of .jpg files of the input directory

(* Program constants *)

NumKeys == 9        \* the digit keys '1'..'9'
ScreenHeight == 10  \* QDesktopWidget().screenGeometry().height()

(* The pointer positions tried: all three lie inside every image.  Between   *)
(* them lie one proper box, one zero-width box and one zero-height box,     *)
(* which overlap pairwise.  Presses at two of them draw all three boxes.    *)
Positions == {<<0, 0>>, <<0, 1>>, <<1, 1>>}
PressPositions == {<<0, 0>>, <<1, 1>>}

-----------------------------------------------------------------------------
(* Files and images *)

\* The handlers never read a sidecar or a crop file: they test whether a
\* sidecar exists and they append.  A sidecar is therefore kept as absent,
\* empty or holding lines, and the lines and crop files a handler writes
\* are kept until the next handler runs (written, crops).

Image(stem, ext) == [stem |-> stem, ext |-> ext]
StartPng == Image(-1, "png")     \* 'start.png'
EndPng == Image(0, "png")        \* 'end.png'
Ready == Image(-1, "Ready")      \* the initial text of the fileName label

\* glob(directory/*.jpg) followed by glob(directory/*.png): the .png shares
\* its stem with the first .jpg.
Directory == [i \in 1..NumJpg |-> Image(i, "jpg")] \o <<Image(1, "png")>>

\* imgPath[:-4] + '.txt': the sidecar is named by the stem alone
SidecarOf(img) == img.stem

\* the image files QPixmap and cv2.imread can be given
Images == {Directory[i] : i \in 1..Len(Directory)} \cup {EndPng}

Sidecars == {SidecarOf(Directory[i]) : i \in 1..Len(Directory)} \cup {SidecarOf(EndPng)}

\* width and height of the image file as decoded (QPixmap(image_fn), cv2.imread)
OrigSize(img) == dims[img]

\* os.path.exists(path)
Exists(path) == files[path] /= "absent"

\* the file after open(path, 'a') and the writing of n more lines
Appended(file, n) == IF n > 0 THEN "lines" ELSE IF file = "absent" THEN "empty" ELSE file

-----------------------------------------------------------------------------
(* Arithmetic *)

Min(a, b) == IF a <= b THEN a ELSE b
Max(a, b) == IF a >= b THEN a ELSE b
Abs(a) == IF a >= 0 THEN a ELSE -a

\* Python's round(n/d) for d > 0: to the nearest integer, ties to the even one
Round(n, d) ==
    LET q == n \div d
        r == n % d
    IN  IF 2 * r < d THEN q
        ELSE IF 2 * r > d THEN q + 1
        ELSE IF q % 2 = 0 THEN q ELSE q + 1

-----------------------------------------------------------------------------
(* ImageWidget: the box store *)

IsUnlabeled(box) == Len(box) = 4
IsLabeled(box) == Len(box) = 5

\* drawResultBox draws key_config[box[-1]] for every labeled box and raises
\* IndexError when that index is past the end of key_config
DrawRaises(res) ==
    \E i \in 1..Len(res) : Len(res[i]) = 5 /\ res[i][5] >= Len(key_config)

\* An uncaught exception ends the handler where it is raised.  PyQt5 then
\* either prints the traceback and returns to the event loop or aborts the
\* process, depending on its version and on sys.excepthook.
Outcome(raised) == alive' \in (IF raised THEN BOOLEAN ELSE {TRUE})

\* a handler that writes no file; it shows the message box msg, or none
Warn(msg) == popup' = msg /\ written' = <<>> /\ crops' = {}
Quiet == Warn("")

\* lx <= x <= rx and ly <= y <= ry
Contains(box, p) ==
    /\ box[1] <= p[1] /\ p[1] <= box[3]
    /\ box[2] <= p[2] /\ p[2] <= box[4]

\* FirstHit taking the box drawn last (the one on top) of those that contain p
LastHit(res, p) ==
    IF \E i \in 1..Len(res) : Contains(res[i], p)
    THEN CHOOSE i \in 1..Len(res) :
             /\ Contains(res[i], p)
             /\ \A j \in (i + 1)..Len(res) : ~Contains(res[j], p)
    ELSE 0

\* the index of the box the right-click loop pops, 0 when it pops none
FirstHit(res, p) ==
    IF \E i \in 1..Len(res) : Contains(res[i], p)
    THEN CHOOSE i \in 1..Len(res) :
             /\ Contains(res[i], p)
             /\ \A j \in 1..(i - 1) : ~Contains(res[j], p)
    ELSE 0

\* list.pop(i), with i counted from 1
Pop(res, i) == SubSeq(res, 1, i - 1) \o SubSeq(res, i + 1, Len(res))

\* the rectangle mouseReleaseEvent computes from the press and release points
RectOf(p1, p2) ==
    LET lx == Min(p1[1], p2[1])
        ly == Min(p1[2], p2[2])
        w == Abs(p1[1] - p2[1])
        h == Abs(p1[2] - p2[2])
    IN  <<lx, ly, lx + w, ly + h>>

\* the test guarding the body of mouseReleaseEvent
NotZeroArea(p1, p2) == p1 /= p2

\* PendingLabel with the field count of a labeled box
PendingLabelOfLabeled(res) ==
    /\ res /= <<>>
    /\ Len(res[Len(res)]) = 5
    /\ autoLabel = "Manual Label"

\* the test of the warning branch of mouseReleaseEvent
PendingLabel(res) ==
    /\ res /= <<>>
    /\ Len(res[Len(res)]) = 4
    /\ autoLabel = "Manual Label"

\* Backfill with the loop starting one box late
BackfillFromSecond(res, idx) ==
    [i \in 1..Len(res) |->
        IF i > 1 /\ Len(res[i]) = 4 THEN Append(res[i], idx) ELSE res[i]]

\* the loop that fills the label of every box still without one
Backfill(res, idx) ==
    [i \in 1..Len(res) |-> IF Len(res[i]) = 4 THEN Append(res[i], idx) ELSE res[i]]

\* AutoAppend without the loop that fills the missing labels
AutoAppendOnly(res, rect, idx) == Append(res, Append(rect, idx))

\* the Auto Label branch of mouseReleaseEvent
AutoAppend(res, rect, idx) == Backfill(Append(res, Append(rect, idx)), idx)

\* the Manual Label branch of mouseReleaseEvent
ManualAppend(res, rect) == Append(res, rect)

\* mousePressEvent, left button
LeftPress(p) ==
    /\ alive
    /\ lastPoint' = p
    /\ Quiet
    /\ UNCHANGED <<envVars, results, last_idx, autoLabel, sessionVars,
                   diskVars, cropVars, alive>>

\* mousePressEvent, right button
RightPress(p) ==
    LET i == FirstHit(results, p) IN
    /\ alive
    /\ results' = IF i = 0 THEN results ELSE Pop(results, i)
    /\ Outcome(i /= 0 /\ DrawRaises(results'))
    /\ Quiet
    /\ UNCHANGED <<envVars, last_idx, lastPoint, autoLabel, sessionVars,
                   diskVars, cropVars>>

\* mouseReleaseEvent, left button.  Qt delivers the release after a left
\* press; it reads lastPoint, which only the left press writes.
LeftRelease(p2) ==
    LET p1 == lastPoint
        rect == RectOf(p1, p2)
    IN
    /\ alive
    /\ IF ~NotZeroArea(p1, p2)
       THEN /\ Quiet
            /\ UNCHANGED <<results, alive>>
       ELSE IF PendingLabel(results)
       THEN /\ Warn("Please mark the box you drew.")
            /\ UNCHANGED results
            /\ Outcome(DrawRaises(results))
       ELSE IF autoLabel = "Auto Label"
       THEN /\ Len(results) < MaxBoxes
            /\ results' = AutoAppend(results, rect, last_idx)
            /\ Quiet
            /\ Outcome(DrawRaises(results'))
       ELSE /\ Len(results) < MaxBoxes
            /\ results' = ManualAppend(results, rect)
            /\ Quiet
            /\ UNCHANGED alive
    /\ UNCHANGED <<envVars, last_idx, lastPoint, autoLabel, sessionVars,
                   diskVars, cropVars>>

\* cancelLast
cancelLast ==
    /\ results' = IF results /= <<>> THEN SubSeq(results, 1, Len(results) - 1) ELSE results
    /\ Outcome(results /= <<>> /\ DrawRaises(results'))
    /\ Quiet
    /\ UNCHANGED <<envVars, last_idx, lastPoint, autoLabel, sessionVars,
                   diskVars, cropVars>>

\* Marked that labels an unlabeled last box and leaves a labeled one as it is
MarkedIfUnlabeled(res, idx) ==
    IF res = <<>> THEN res
    ELSE LET n == Len(res) IN
         IF Len(res[n]) = 4 THEN [res EXCEPT ![n] = Append(res[n], idx)]
         ELSE res

\* the store after markBox(idx)
Marked(res, idx) ==
    IF res = <<>> THEN res
    ELSE LET n == Len(res) IN
         IF Len(res[n]) = 4 THEN [res EXCEPT ![n] = Append(res[n], idx)]
         ELSE [res EXCEPT ![n][5] = idx]

\* markBox(idx); boxes have 4 or 5 fields, so the ValueError branch is dead
markBox(idx) ==
    /\ last_idx' = idx
    /\ results' = Marked(results, idx)
    /\ Outcome(results /= <<>> /\ DrawRaises(results'))
    /\ Quiet
    /\ UNCHANGED <<envVars, lastPoint, autoLabel, sessionVars, diskVars, cropVars>>

\* resetResult
resetResult(res) == <<>>

-----------------------------------------------------------------------------
(* ImageWidget.setPixmap and MainWidget.writeResults *)

\* DisplaySize that applies the ratio to every image, the small ones too
DisplaySizeAlways(osz) ==
    <<Round(4 * screen_height * osz[1], 5 * osz[2]),
      Round(4 * screen_height * osz[2], 5 * osz[2])>>

\* setPixmap: the displayed width and height of an image of size osz;
\* H > screen_height * 0.8 is 5 * H > 4 * screen_height
DisplaySize(osz) ==
    LET W == osz[1]
        H == osz[2]
    IN  IF 5 * H > 4 * screen_height
        THEN <<Round(4 * screen_height * W, 5 * H), Round(4 * screen_height * H, 5 * H)>>
        ELSE <<W, H>>

\* LineOf with the left and top edges in place of the centre
LineOfCorner(box, sz) ==
    <<box[5],
      <<2 * box[1], 2 * sz[1]>>,
      <<2 * box[2], 2 * sz[2]>>,
      <<box[3] - box[1], sz[1]>>,
      <<box[4] - box[2], sz[2]>>>>

\* yolo_format: the label index and four fractions, each <<numerator, denominator>>
LineOf(box, sz) ==
    <<box[5],
      <<box[1] + box[3], 2 * sz[1]>>,
      <<box[2] + box[4], 2 * sz[2]>>,
      <<box[3] - box[1], sz[1]>>,
      <<box[4] - box[2], sz[2]>>>>

\* the unpacking of a 4-field box raises ValueError, the divisions by W and H
\* raise ZeroDivisionError
LineRaises(box, sz) == Len(box) /= 5 \/ sz[1] = 0 \/ sz[2] = 0

\* CropRect with the centre of the box taken for its left and top edge
CropRectAtCentre(box, sz, osz) ==
    LET w == Round((box[3] - box[1]) * osz[1], sz[1])
        h == Round((box[4] - box[2]) * osz[2], sz[2])
        x == Round((box[1] + box[3]) * osz[1], 2 * sz[1])
        y == Round((box[2] + box[4]) * osz[2], 2 * sz[2])
    IN  <<x, y, w, h>>

\* <<x, y, w, h>>: the pixel rectangle of the crop in the image of size osz
CropRect(box, sz, osz) ==
    LET w == Round((box[3] - box[1]) * osz[1], sz[1])
        h == Round((box[4] - box[2]) * osz[2], sz[2])
        x == Round((box[1] + box[3]) * osz[1] - w * sz[1], 2 * sz[1])
        y == Round((box[2] + box[4]) * osz[2] - h * sz[2], 2 * sz[2])
    IN  <<x, y, w, h>>

\* number of elements of the slice a[start:stop] of an axis of length n
SliceLen(start, stop, n) ==
    LET s == IF start < 0 THEN Max(start + n, 0) ELSE Min(start, n)
        e == IF stop < 0 THEN Max(stop + n, 0) ELSE Min(stop, n)
    IN  Max(e - s, 0)

\* the crop of a box raises when key_config[idx] is out of range, when the
\* slice is empty (cv2.cvtColor rejects it) or when save_directory is None
CropRaises(box, sz, osz) ==
    LET r == CropRect(box, sz, osz) IN
    \/ box[5] >= Len(key_config)
    \/ SliceLen(r[2], r[2] + r[4], osz[2]) = 0
    \/ SliceLen(r[1], r[1] + r[3], osz[1]) = 0
    \/ savePathLabel /= "Results"

\* basename[:-4] + '-{}-{}.jpg'.format(key_config[idx], i)
CropName(img, box, i) == <<img.stem, key_config[box[5] + 1], i - 1>>

\* the file crop_img.save writes: its name and the rectangle img[y:y+h, x:x+w]
CropFile(img, box, i, sz) ==
    <<CropName(img, box, i), CropRect(box, sz, OrigSize(img))>>

\* the loop of writeResults from box i on: lines are the lines appended to the
\* sidecar and cr the crop files saved so far; the loop stops where a box raises
RECURSIVE WriteBoxes(_, _, _, _)
WriteBoxes(res, i, lines, cr) ==
    IF i > Len(res)
    THEN [lines |-> lines, crops |-> cr, raised |-> FALSE]
    ELSE IF LineRaises(res[i], size)
    THEN [lines |-> lines, crops |-> cr, raised |-> TRUE]
    ELSE LET more == Append(lines, LineOf(res[i], size)) IN
         IF ~crop_mode
         THEN WriteBoxes(res, i + 1, more, cr)
         ELSE IF CropRaises(res[i], size, OrigSize(currentImg))
         THEN [lines |-> more, crops |-> cr, raised |-> TRUE]
         ELSE WriteBoxes(res, i + 1, more,
                         cr \cup {CropFile(currentImg, res[i], i, size)})

\* writeResults(res): the files and crop files afterwards, and whether it raised
writeResults(res) ==
    IF fileName = Ready
    THEN [files |-> files, lines |-> <<>>, crops |-> {}, raised |-> FALSE]
    ELSE IF size = <<>>
    THEN [files |-> files, lines |-> <<>>, crops |-> {}, raised |-> TRUE]
    ELSE LET path == SidecarOf(currentImg)
             w == WriteBoxes(res, 1, <<>>, {})
         IN  [files |-> IF res = <<>> \/ w.lines /= <<>>
                        THEN [files EXCEPT ![path] = Appended(files[path], Len(w.lines))]
                        ELSE files,
              lines |-> w.lines,
              crops |-> w.crops,
              raised |-> w.raised]

-----------------------------------------------------------------------------
(* MainWidget: the session *)

\* NotMarked looking at the first box
NotMarkedFirst(res) == res /= <<>> /\ Len(res[1]) /= 5

\* NotMarked with the field count of an unlabeled box
NotMarkedOfUnlabeled(res) == res /= <<>> /\ Len(res[Len(res)]) /= 4

\* the guard of setNextImage: res and len(res[-1]) != 5
NotMarked(res) == res /= <<>> /\ Len(res[Len(res)]) /= 5

\* setNextImage(), img not given: the Next button and the E key.
\* self.imgList.pop(0) raises inside the try when the list is empty or when no
\* directory was registered; self.total_imgs raises uncaught in the latter case,
\* before setPixmap.  The EXIF rotation does not touch the state modelled.
setNextImage ==
    LET w == writeResults(results)
        more == scanned /\ imgList /= <<>>
        next == IF more THEN Head(imgList) ELSE EndPng
    IN
    /\ saveDirExists' = (saveDirExists \/ (savePathLabel = "Results" /\ crop_mode))
    /\ IF NotMarked(results)
       THEN /\ Warn("please mark the box you drew.")
            /\ UNCHANGED <<results, sessionVars, files, alive>>
       ELSE /\ popup' = ""
            /\ files' = w.files
            /\ written' = w.lines
            /\ crops' = w.crops
            /\ IF w.raised
               THEN /\ UNCHANGED <<results, sessionVars>>
                    /\ Outcome(TRUE)
               ELSE /\ results' = resetResult(results)
                    /\ currentImg' = next
                    /\ imgList' = IF more THEN Tail(imgList) ELSE imgList
                    /\ fileName' = next
                    /\ UNCHANGED <<scanned, total_imgs>>
                    /\ IF ~scanned
                       THEN /\ UNCHANGED <<progress, size>>
                            /\ Outcome(TRUE)
                       ELSE /\ progress' = <<total_imgs - Len(imgList'), total_imgs>>
                            /\ size' = DisplaySize(OrigSize(next))
                            /\ Outcome(FALSE)
    /\ UNCHANGED <<envVars, last_idx, lastPoint, autoLabel, cropVars>>

\* Unlabelled without the skip of the images that have a sidecar
UnlabelledAll(dir) == dir

\* the images registerInputPath keeps: those without a sidecar, in glob order
Unlabelled(dir) == SelectSeq(dir, LAMBDA img : ~Exists(SidecarOf(img)))

\* registerInputPath with a directory chosen.  The save directory is the default
\* one throughout (registerSavePath is not modelled), so the label becomes 'Results'.
registerInputPath ==
    /\ alive
    /\ imgList' = Unlabelled(Directory)
    /\ total_imgs' = Len(Directory)
    /\ scanned' = TRUE
    /\ savePathLabel' = "Results"
    /\ Quiet
    /\ UNCHANGED <<envVars, boxVars, currentImg, fileName, progress, size,
                   diskVars, crop_mode, alive>>

\* cropMode that makes the Results directory as soon as the box is checked
cropModeMakesDir ==
    /\ alive
    /\ crop_mode' = ~crop_mode
    /\ saveDirExists' = (saveDirExists \/ (savePathLabel = "Results" /\ ~crop_mode))
    /\ Quiet
    /\ UNCHANGED <<envVars, boxVars, sessionVars, files, savePathLabel, alive>>

\* cropMode: the check box changed state
cropMode ==
    /\ alive
    /\ crop_mode' = ~crop_mode
    /\ Quiet
    /\ UNCHANGED <<envVars, boxVars, sessionVars, diskVars, savePathLabel, alive>>

\* the Next button, enabled by registerInputPath
ButtonNext == alive /\ scanned /\ setNextImage

\* the Cancel button
ButtonCancel == alive /\ cancelLast

\* keyPressEvent, digit key i: markBox(i - 1) when key_config has i labels
KeyDigit(i) ==
    /\ alive
    /\ IF Len(key_config) >= i
       THEN markBox(i - 1)
       ELSE Quiet /\ UNCHANGED <<envVars, boxVars, sessionVars, diskVars,
                                       cropVars, alive>>

\* keyPressEvent, Escape
KeyEscape == alive /\ cancelLast

\* keyPressEvent, E
KeyE == alive /\ setNextImage

\* keyPressEvent, Q: resetResult, then drawResultBox of the empty store
KeyQ ==
    /\ alive
    /\ results' = resetResult(results)
    /\ Quiet
    /\ UNCHANGED <<envVars, last_idx, lastPoint, autoLabel, sessionVars,
                   diskVars, cropVars, alive>>

\* KeyA that also sets last_idx back to the first label
KeyAResetsLabel ==
    /\ alive
    /\ autoLabel' = IF autoLabel = "Auto Label" THEN "Manual Label" ELSE "Auto Label"
    /\ last_idx' = 0
    /\ Quiet
    /\ UNCHANGED <<envVars, results, lastPoint, sessionVars, diskVars, cropVars, alive>>

\* keyPressEvent, A
KeyA ==
    /\ alive
    /\ autoLabel' = IF autoLabel = "Auto Label" THEN "Manual Label" ELSE "Auto Label"
    /\ Quiet
    /\ UNCHANGED <<envVars, results, last_idx, lastPoint, sessionVars,
                   diskVars, cropVars, alive>>

-----------------------------------------------------------------------------
(* The specification *)

\* key_config: the nonempty ones of key_1 .. key_9, here named 1..n.  The
\* configurations tried hold no label, one label and two labels.
Configs == {<<>>, <<1>>, <<1, 2>>}

\* a directory no image of which has been labelled yet
InitialFiles == {[path \in Sidecars |-> "absent"]}

\* the image files of the directory are 2 x 2 pixels
InitialDims == {[img \in Images |-> <<2, 2>>]}

\* the state MyApp.initUI, MainWidget.__init__ and ImageWidget.__init__ build
Constructed ==
    /\ results = <<>>
    /\ last_idx = 0
    /\ lastPoint = <<0, 0>>
    /\ autoLabel = "Manual Label"
    /\ scanned = FALSE
    /\ imgList = <<>>
    /\ total_imgs = 0
    /\ currentImg = StartPng
    /\ fileName = Ready
    /\ progress = <<>>
    /\ size = <<>>
    /\ crop_mode = FALSE
    /\ savePathLabel = "Save Path not selected"
    /\ saveDirExists = FALSE
    /\ written = <<>>
    /\ crops = {}
    /\ popup = ""
    /\ alive = TRUE

Init ==
    /\ key_config \in Configs
    /\ dims \in InitialDims
    /\ screen_height = ScreenHeight
    /\ files \in InitialFiles
    /\ Constructed

Next ==
    \/ \E p \in PressPositions : LeftPress(p)
    \/ \E p \in Positions : RightPress(p)
    \/ \E p \in Positions : LeftRelease(p)
    \/ \E i \in 1..NumKeys : KeyDigit(i)
    \/ KeyEscape
    \/ KeyE
    \/ KeyQ
    \/ KeyA
    \/ ButtonNext
    \/ ButtonCancel
    \/ registerInputPath
    \/ cropMode

Spec == Init /\ [][Next]_vars

-----------------------------------------------------------------------------
(* The geometry of the images: setPixmap, the YOLO line and the crop rectangle *)
(* for image files of several sizes, screens of two heights, and a pointer     *)
(* that is released inside or outside the widget                              *)

\* <<width, height>> of the first image file: shown as it is, scaled down to
\* the screen, scaled at a rounding tie (5 x 16), scaled to a width of 0 (1 x 20)
GeomSizes == {<<2, 2>>, <<3, 4>>, <<4, 10>>, <<5, 16>>, <<1, 20>>}

\* the first image has one of the sizes, the other files are 2 x 2
GeomDims ==
    {[img \in Images |-> IF img = Directory[1] THEN s ELSE <<2, 2>>] : s \in GeomSizes}

\* QDesktopWidget().screenGeometry().height()
GeomScreens == {5, ScreenHeight}

\* event.pos() of a press lies inside the widget, which setFixedSize(W, H) sizes;
\* before the first load the widget shows start.png
InWidget(p) ==
    IF size = <<>>
    THEN TRUE
    ELSE 0 <= p[1] /\ p[1] < size[1] /\ 0 <= p[2] /\ p[2] < size[2]

GeomPress == {<<0, 0>>, <<1, 1>>}

\* event.pos() of a release: the pointer is grabbed by the press, so the
\* release arrives from wherever the drag ends, beyond the widget's edges too
GeomPositions == {<<2, 3>>, <<-1, 1>>}

InitGeom ==
    /\ key_config = <<1>>
    /\ dims \in GeomDims
    /\ screen_height \in GeomScreens
    /\ files \in InitialFiles
    /\ Constructed

NextGeom ==
    \/ \E p \in GeomPress : InWidget(p) /\ LeftPress(p)
    \/ \E p \in GeomPositions : LeftRelease(p)
    \/ KeyDigit(1)
    \/ KeyE
    \/ registerInputPath
    \/ cropMode

SpecGeom == InitGeom /\ [][NextGeom]_vars

-----------------------------------------------------------------------------
(* Properties *)

DirImages == {Directory[i] : i \in 1..Len(Directory)}

\* a rectangle with nonzero width and nonzero height
Proper(rect) == rect[3] > rect[1] /\ rect[4] > rect[2]

\* C1: in every state between two handlers no box other than the last one of
\* the store is Unlabeled.
C1_OnlyLastUnlabeled ==
    \A i \in 1..(Len(results) - 1) : IsLabeled(results[i])

C1_Witness ==
    /\ Len(results) >= 2
    /\ IsUnlabeled(results[Len(results)])
    /\ alive

\* C2: every stored box has right > left and bottom > top, a rect of zero
\* width or zero height being discarded by mouseReleaseEvent.
C2_NoDegenerateStored ==
    \A i \in 1..Len(results) : Proper(results[i])

\* C3: whenever setNextImage passes the store to writeResults, every box of
\* the store is Labeled.
C3_CommitAllLabeled ==
    [][(setNextImage /\ ~NotMarked(results))
          => \A i \in 1..Len(results) : IsLabeled(results[i])]_vars

C3_Witness ==
    /\ Len(written) >= 2
    /\ results = <<>>
    /\ alive

\* C4: every Labeled box of the store has 0 <= label < len(key_config).
C4_LabelInRange ==
    \A i \in 1..Len(results) :
        IsLabeled(results[i]) =>
            (0 <= results[i][5] /\ results[i][5] < Len(key_config))

\* C5: in Manual mode a release that closes a proper rect while the store is
\* non-empty and its last box is Unlabeled shows the warning and leaves the
\* store as it was.
C5_ManualGuard ==
    [][\A p \in Positions :
          (/\ LeftRelease(p)
           /\ autoLabel = "Manual Label"
           /\ results /= <<>>
           /\ IsUnlabeled(results[Len(results)])
           /\ Proper(RectOf(lastPoint, p)))
          => (/\ results' = results
              /\ popup' = "Please mark the box you drew.")]_vars

C5_Witness ==
    /\ popup = "Please mark the box you drew."
    /\ autoLabel = "Manual Label"
    /\ results /= <<>>
    /\ IsUnlabeled(results[Len(results)])

\* C6: in Auto mode a release that closes a proper rect appends exactly one
\* box; afterwards every box is Labeled, the new box and every box that was
\* Unlabeled carry last_idx, and the boxes that were Labeled are unchanged.
C6_AutoBackfill ==
    [][\A p \in Positions :
          (/\ LeftRelease(p)
           /\ autoLabel = "Auto Label"
           /\ Proper(RectOf(lastPoint, p)))
          => (/\ Len(results') = Len(results) + 1
              /\ results'[Len(results')] = Append(RectOf(lastPoint, p), last_idx)
              /\ \A i \in 1..Len(results) :
                    /\ SubSeq(results'[i], 1, 4) = SubSeq(results[i], 1, 4)
                    /\ IsLabeled(results'[i])
                    /\ IsUnlabeled(results[i]) => results'[i][5] = last_idx
                    /\ IsLabeled(results[i]) => results'[i] = results[i])]_vars

C6_Witness ==
    /\ autoLabel = "Auto Label"
    /\ Len(results) >= 2
    /\ \A i \in 1..Len(results) : IsLabeled(results[i])
    /\ results[1][5] = 0
    /\ results[Len(results)][5] = 1
    /\ last_idx = 1
    /\ alive

\* C7: setNextImage on a store whose last box is Unlabeled is refused: the
\* store, the queue, the current image and every sidecar are unchanged, nothing
\* is written and the warning is shown.
C7_AdvanceRefused ==
    [][(/\ setNextImage
        /\ results /= <<>>
        /\ IsUnlabeled(results[Len(results)]))
          => (/\ UNCHANGED <<results, imgList, currentImg, fileName, files>>
              /\ written' = <<>>
              /\ popup' = "please mark the box you drew.")]_vars

C7_Witness ==
    /\ popup = "please mark the box you drew."
    /\ currentImg \in DirImages
    /\ results /= <<>>
    /\ IsUnlabeled(results[Len(results)])

\* C8: the image setNextImage has loaded has no sidecar: a sidecar of the
\* current image comes into being only by the commit that leaves the image.
C8_LoadedHasNoSidecar ==
    currentImg \in DirImages => ~Exists(SidecarOf(currentImg))

\* C9: once setNextImage has found the queue empty and shows the placeholder,
\* the store stays empty.
C9_ExhaustedStoreEmpty ==
    (scanned /\ currentImg = EndPng /\ size /= <<>>) => results = <<>>

\* C10: a setNextImage that commits n >= 1 boxes of a loaded image without
\* raising appends n lines to the sidecar of that image, line i holding the
\* label index and the normalized centre and size of box i; it empties the
\* store and makes the front of the queue the current image.  A commit that
\* raises leaves the store, the queue and the current image as they were.
C10_CommitLines ==
    [][(/\ setNextImage
        /\ results /= <<>>
        /\ ~NotMarked(results)
        /\ currentImg \in DirImages)
          => IF writeResults(results).raised
             THEN UNCHANGED <<results, imgList, currentImg>>
             ELSE /\ Len(written') = Len(results)
                  /\ \A i \in 1..Len(results) :
                        written'[i] =
                            <<results[i][5],
                              <<results[i][1] + results[i][3], 2 * size[1]>>,
                              <<results[i][2] + results[i][4], 2 * size[2]>>,
                              <<results[i][3] - results[i][1], size[1]>>,
                              <<results[i][4] - results[i][2], size[2]>>>>
                  /\ files'[SidecarOf(currentImg)] = "lines"
                  /\ \A path \in Sidecars \ {SidecarOf(currentImg)} :
                        files'[path] = files[path]
                  /\ results' = <<>>
                  /\ imgList /= <<>> =>
                        (currentImg' = Head(imgList) /\ imgList' = Tail(imgList))
                  /\ imgList = <<>> => currentImg' = EndPng]_vars

C10_Witness ==
    /\ Len(written) >= 2
    /\ written[1][1] /= written[2][1]
    /\ results = <<>>
    /\ currentImg \in DirImages
    /\ alive

\* the images of Directory[1..i] that have a sidecar
SkippedUpTo(i) == {k \in 1..i : Exists(SidecarOf(Directory[k]))}

C12_EmptyCommit ==
    [][(/\ setNextImage
        /\ currentImg \in DirImages
        /\ results = <<>>)
       => /\ files'[SidecarOf(currentImg)] = "empty"
          /\ crops' = {}]_vars

\* the os.makedirs of setNextImage is reached with os.path.exists(save_path) false
\* or true: an advance with the label 'Results' and crop mode on
CropAdvance == setNextImage /\ crop_mode /\ savePathLabel = "Results"

InUnit(f) == f[2] > 0 /\ 0 <= f[1] /\ f[1] <= f[2]

\* C14: the four fractions cx, cy, w, h of every line a commit writes lie in
\* [0, 1], whatever press and release points made the box.
C14_NormalizedInUnit ==
    \A i \in 1..Len(written) : \A k \in 2..5 : InUnit(written[i][k])

\* C15: on an image shown at its own size (W, H = ow, oh) the crop rectangle
\* computed from the line of a box with left < right and top < bottom has its
\* left, top, right and bottom edge within 1 pixel of the box's edges.
C15_RoundTrip ==
    [][(setNextImage /\ currentImg \in Images /\ size = OrigSize(currentImg))
       => \A i \in 1..Len(results) : \A c \in crops' :
             (c[1][3] = i - 1 /\ Proper(results[i]))
             => /\ Abs(c[2][1] - results[i][1]) <= 1
                /\ Abs(c[2][2] - results[i][2]) <= 1
                /\ Abs(c[2][1] + c[2][3] - results[i][3]) <= 1
                /\ Abs(c[2][2] + c[2][4] - results[i][4]) <= 1]_vars

\* a commit on an unscaled image has saved the crop of the box (0, 0, 2, 3)
C15_Witness ==
    /\ dims[Directory[1]] = <<3, 4>>
    /\ \E c \in crops : c[1][1] = Directory[1].stem /\ c[2] = <<0, 0, 2, 3>>

Holding(p) ==
    {i \in 1..Len(results) :
        /\ results[i][1] <= p[1] /\ p[1] <= results[i][3]
        /\ results[i][2] <= p[2] /\ p[2] <= results[i][4]}

\* C17: a right press at p removes exactly one box, the first in insertion
\* order whose rectangle (edges included) holds p, and keeps every other box
\* with its order and label; when no box holds p the store is unchanged.
C17_RemoveFirstHit ==
    [][\A p \in Positions : RightPress(p) =>
          IF Holding(p) = {}
          THEN results' = results
          ELSE LET k == CHOOSE i \in Holding(p) : \A j \in Holding(p) : i <= j
               IN  /\ Len(results') = Len(results) - 1
                   /\ \A j \in 1..Len(results') :
                         results'[j] = IF j < k THEN results[j] ELSE results[j + 1]]_vars

\* two different boxes overlap, so a right press in both has to choose
C17_Witness ==
    /\ Len(results) = 2
    /\ results[1] /= results[2]
    /\ \E p \in Positions : Holding(p) = {1, 2}

\* C18: markBox(idx) sets last_idx to idx, with an empty store too; on a
\* nonempty store the last box becomes labeled idx, whether it was unlabeled
\* or labeled, and the number of boxes, every rectangle and the label of
\* every other box stay as they were.
C18_MarkBox ==
    [][\A idx \in 0..(NumKeys - 1) : markBox(idx) =>
          /\ last_idx' = idx
          /\ Len(results') = Len(results)
          /\ \A j \in 1..Len(results) :
                /\ SubSeq(results'[j], 1, 4) = SubSeq(results[j], 1, 4)
                /\ j < Len(results) => results'[j] = results[j]
                /\ j = Len(results) => (Len(results'[j]) = 5 /\ results'[j][5] = idx)]_vars

\* a digit key has set last_idx while the store was empty
C18_Witness ==
    /\ last_idx = 1
    /\ results = <<>>
    /\ currentImg = StartPng
    /\ lastPoint = <<0, 0>>

\* C19: the lines a commit appends to the sidecar of an image X come from
\* boxes that were stored while X was the current image.  The store is empty
\* after every change of the current image and after every advance that went
\* through, an advance with no image loaded writes nothing, and the sidecar a
\* commit appends to is the sidecar of no image but the current one.
C19_LinesOfCurrentImage ==
    [][/\ currentImg' /= currentImg => results' = <<>>
       /\ (/\ setNextImage
           /\ scanned
           /\ ~NotMarked(results)
           /\ ~writeResults(results).raised) => results' = <<>>
       /\ (setNextImage /\ fileName = Ready) => (written' = <<>> /\ files' = files)
       /\ \A X \in Images :
             (/\ setNextImage
              /\ written' /= <<>>
              /\ SidecarOf(X) = SidecarOf(currentImg)) => X = currentImg]_vars

\* C20: autoLabel changes only by the A key and last_idx only by a digit key:
\* presses, releases, Escape, Q, the crop check box, a scan and an advance
\* (across image loads too) leave both as they are; the A key and the crop
\* check box leave the store as it is.
C20_Frame ==
    [][/\ autoLabel' /= autoLabel => KeyA
       /\ last_idx' /= last_idx => \E i \in 1..NumKeys : KeyDigit(i)
       /\ (KeyA \/ cropMode) => results' = results]_vars

\* Auto Label, label 1 and crop mode are in force on the second image loaded,
\* the store holding a box
C20_Witness ==
    /\ autoLabel = "Auto Label"
    /\ last_idx = 1
    /\ crop_mode
    /\ results /= <<>>
    /\ currentImg = Directory[Len(Directory)]

\* the session is Exhausted: setNextImage found the queue empty and shows end.png
Exhausted == scanned /\ currentImg = EndPng /\ imgList = <<>> /\ size /= <<>>

\* C21: once a scan has made the queue, every advance that goes through loads
\* the head of the queue and removes it, so the queued images are loaded in
\* queue order, each once; with the queue empty the advance shows end.png, and
\* from then on every advance keeps end.png on display and raises no error.
C21_QueueConsumed ==
    [][/\ (/\ setNextImage
           /\ scanned
           /\ ~NotMarked(results)
           /\ ~writeResults(results).raised)
          => IF imgList /= <<>>
             THEN currentImg' = imgList[1] /\ imgList' = Tail(imgList)
             ELSE currentImg' = EndPng /\ imgList' = <<>>
       /\ (setNextImage /\ Exhausted) => (Exhausted' /\ alive')]_vars

\* C22: after every advance that goes through the progress text is
\* (total_imgs - len(imgList), total_imgs) with 0 <= done <= total_imgs; done
\* is one more than the text showed before when the queue was not empty, and
\* equals total_imgs once Exhausted; done never decreases and total_imgs
\* changes by a scan only.
C22_Progress ==
    [][/\ (/\ setNextImage
           /\ scanned
           /\ ~NotMarked(results)
           /\ ~writeResults(results).raised)
          => /\ progress' = <<total_imgs' - Len(imgList'), total_imgs'>>
             /\ 0 <= progress'[1] /\ progress'[1] <= progress'[2]
             /\ (imgList /= <<>> /\ progress /= <<>>) => progress'[1] = progress[1] + 1
             /\ Exhausted' => progress'[1] = total_imgs'
       /\ progress /= <<>> => (progress' /= <<>> /\ progress'[1] >= progress[1])
       /\ total_imgs' /= total_imgs => registerInputPath]_vars

\* C23: a commit writes to no sidecar but that of an image taken from the
\* queue; an advance with no image loaded yet, or with end.png on display
\* after the queue ran out, creates and modifies no file.
C23_WritesOnlyForQueued ==
    [][/\ \A path \in Sidecars :
             files'[path] /= files[path]
             => (currentImg \in DirImages /\ path = SidecarOf(currentImg))
       /\ (setNextImage /\ (fileName = Ready \/ Exhausted))
          => (files' = files /\ written' = <<>> /\ crops' = {})]_vars

\* C24: an image file of at least 1 x 1 pixels is displayed, on a screen of
\* height 2 or more, at a width and a height of at least 1, so that W and H
\* are nonzero divisors in writeResults.
C24_DisplayAtLeastOne ==
    (currentImg \in Images /\ size /= <<>>) =>
        /\ OrigSize(currentImg)[1] >= 1 /\ OrigSize(currentImg)[2] >= 1
        /\ screen_height >= 2
        /\ size[1] >= 1 /\ size[2] >= 1

====
